---- MODULE Spec2Model ----
(***************************************************************************)
(* Safe Link: rule-based URL scoring, tiering, the external verdict check  *)
(* and the scan history of the App component (src/src/App.tsx).            *)
(*                                                                         *)
(* Strings are modelled as sequences of tokens.  A token is a piece of     *)
(* text that the program's regular expressions and string tests either     *)
(* match as a whole or not at all: "https:" "/" "/" "www." "google.com"    *)
(* "/" is the text https://www.google.com/.                                *)
(***************************************************************************)
EXTENDS Integers, Sequences, FiniteSets, TLC

(***************************************************************************)
(* Bounds of the model.                                                    *)
(***************************************************************************)
\* number of Analyze submissions that pass validation in one behaviour
MaxScans == 1

\* reaction and comment clicks per behaviour
MaxClicks == 3

Null == [null |-> TRUE]

Max(a, b) == IF a >= b THEN a ELSE b
Min(a, b) == IF a <= b THEN a ELSE b

(***************************************************************************)
(* Text helpers over token sequences.                                      *)
(***************************************************************************)
Contains(text, markers) == \E i \in 1..Len(text) : text[i] \in markers

IndexOfSlash(text) ==
  IF \E i \in 1..Len(text) : text[i] = "/"
  THEN CHOOSE i \in 1..Len(text) : text[i] = "/" /\ \A j \in 1..(i-1) : text[j] # "/"
  ELSE 0

\* raw.startsWith('http'): every token that begins with the letters http
StartsWithHttp(raw) == Len(raw) > 0 /\ raw[1] \in {"http:", "https:"}
\* raw.startsWith('https://') and raw.startsWith('http://')
StartsWithHttpsScheme(raw) == Len(raw) >= 3 /\ SubSeq(raw, 1, 3) = <<"https:", "/", "/">>
StartsWithHttpScheme(raw) == Len(raw) >= 3 /\ SubSeq(raw, 1, 3) = <<"http:", "/", "/">>

\* number of characters of a token
TokLen(t) ==
  CASE t = "https:" -> 6
    [] t = "http:" -> 5
    [] t \in {"/", "-", "x"} -> 1
    [] t \in {"www.", ".com", "new-"} -> 4
    [] t \in {"google.com", "selfsigned"} -> 10
    [] t \in {"example", "badsite", "account"} -> 7
    [] t \in {"bit.ly", "verify"} -> 6
    [] t = "login" -> 5
    [] t = "redirect" -> 8
    [] OTHER -> 3

\* number of '.' characters of a token
TokDots(t) == IF t \in {"www.", ".com", "google.com", "bit.ly"} THEN 1 ELSE 0

RECURSIVE TextLen(_)
TextLen(text) == IF text = <<>> THEN 0 ELSE TokLen(Head(text)) + TextLen(Tail(text))

RECURSIVE TextDots(_)
TextDots(text) == IF text = <<>> THEN 0 ELSE TokDots(Head(text)) + TextDots(Tail(text))

KnownSafeDomains == {"google.com", "apple.com", "microsoft.com", "amazon.com"}

clamp(v, a, b) == Max(a, Min(b, v))

isProbablyShortener(host) ==
  Contains(host, {"bit.ly", "tinyurl", "goo.gl", "t.co", "ow.ly", "buff.ly", "rb.gy",
                  "short.ly", "is.gd"})

hasUrgentKeywords(text) ==
  Contains(text, {"verify", "reset", "update", "confirm", "secure", "account", "login",
                  "unauthorized", "suspend", "password", "malware", "scam", "phish",
                  "download", "virus"})

mockDomainAgeDays(host) ==
  IF Contains(host, KnownSafeDomains) THEN 365 * 10
  ELSE IF Contains(host, {"new-", "recent", "young"}) THEN 12
  ELSE IF Contains(host, {"old-", "established"}) THEN 365 * 3
  ELSE Min(365 * 3, Max(10, TextLen(host) * 20))

mockHasValidSsl(url) ==
  IF Contains(url, {"selfsigned", "invalid-cert", "testcert"}) THEN FALSE
  ELSE ~StartsWithHttpScheme(url)

mockIsBlacklisted(host) ==
  Contains(host, {"badsite", "phish", "malicious", "malware-download"})

isShortAndClean(host) ==
  IF Contains(host, KnownSafeDomains) THEN TRUE
  ELSE /\ TextDots(host) + 1 <= 3
       /\ TextLen(host) < 25
       /\ ~Contains(host, {"-", "new-", "old-", "invalid-cert", "malware-download"})

\* new URL(normalized) throws when no host follows the scheme
UrlParses(normalized) ==
  /\ Len(normalized) > 3
  /\ normalized[4] # "/"

parseHost(raw) ==
  LET normalized == IF StartsWithHttp(raw) THEN raw ELSE <<"https:", "/", "/">> \o raw
  IN IF UrlParses(normalized)
     THEN LET rest == SubSeq(normalized, 4, Len(normalized))
              k == IndexOfSlash(rest)
          IN [host |-> IF k = 0 THEN rest ELSE SubSeq(rest, 1, k - 1),
              path |-> IF k = 0 THEN <<"/">> ELSE SubSeq(rest, k, Len(rest))]
     ELSE LET k == IndexOfSlash(raw)
          IN [host |-> IF k = 0 THEN raw ELSE SubSeq(raw, 1, k - 1),
              path |-> IF k = 0 THEN <<>> ELSE SubSeq(raw, k, Len(raw))]

mockHasExcessiveRedirects(url) ==
  \/ Contains(url, {"redirect", "redir", "continue", "next=", "returnurl"})
  \/ isProbablyShortener(parseHost(url).host)

(***************************************************************************)
(* Tier classification, as written at the two places that derive it.       *)
(***************************************************************************)
\* scoreUrl: tier and color of a freshly scored result
scoreTier(safety) ==
  IF safety <= 3 THEN "High Risk" ELSE IF safety <= 6 THEN "Be Careful" ELSE "Safe"

scoreColor(safety) ==
  IF safety <= 3 THEN "#ef4444" ELSE IF safety <= 6 THEN "#f59e0b" ELSE "#10b981"

\* mutant: the threshold of the first tier is 4 instead of 3
finalTierOff(finalSafety) ==
  IF finalSafety <= 4 THEN "High Risk"
  ELSE IF finalSafety <= 6 THEN "Be Careful" ELSE "Safe"

\* mutant: < instead of <= at both thresholds
finalColorOff(finalSafety) ==
  IF finalSafety < 3 THEN "#ef4444"
  ELSE IF finalSafety < 6 THEN "#f59e0b" ELSE "#10b981"

\* runExternalCheck: tier and color after the verdict was applied
finalTier(finalSafety) ==
  IF finalSafety <= 3 THEN "High Risk"
  ELSE IF finalSafety <= 6 THEN "Be Careful" ELSE "Safe"

finalColor(finalSafety) ==
  IF finalSafety <= 3 THEN "#ef4444"
  ELSE IF finalSafety <= 6 THEN "#f59e0b" ELSE "#10b981"

(***************************************************************************)
(* Scoring.                                                                *)
(***************************************************************************)
\* the outcomes of the seven checks for a raw input
checksOf(raw) ==
  LET host == parseHost(raw).host
      isKnownSafeDomain == Contains(host, KnownSafeDomains)
  IN [https |-> StartsWithHttpsScheme(raw)
                  \/ (isKnownSafeDomain /\ ~StartsWithHttpScheme(raw)),
      ssl |-> mockHasValidSsl(raw),
      blacklisted |-> mockIsBlacklisted(host),
      clean |-> isShortAndClean(host),
      suspicious |-> hasUrgentKeywords(host) \/ hasUrgentKeywords(raw),
      established |-> mockDomainAgeDays(host) > 180,
      redirects |-> mockHasExcessiveRedirects(raw)]

\* the breakdown map recorded while the checks are applied
breakdownOf(c) ==
  [https |-> IF c.https THEN 2 ELSE 0,
   ssl |-> IF c.ssl THEN 2 ELSE 0,
   blacklisted |-> IF ~c.blacklisted THEN 2 ELSE -2,
   cleanDomain |-> IF c.clean THEN 1 ELSE 0,
   suspiciousKeywords |-> IF ~c.suspicious THEN 1 ELSE -1,
   domainAge |-> IF c.established THEN 1 ELSE 0,
   redirects |-> IF ~c.redirects THEN 1 ELSE -1]

\* mutant: the redirect penalty is recorded in breakdown but not subtracted
rawScoreNoPenalty(c) ==
  (IF c.https THEN 2 ELSE 0) + (IF c.ssl THEN 2 ELSE 0)
    + (IF ~c.blacklisted THEN 2 ELSE -2) + (IF c.clean THEN 1 ELSE 0)
    + (IF ~c.suspicious THEN 1 ELSE -1) + (IF c.established THEN 1 ELSE 0)
    + (IF ~c.redirects THEN 1 ELSE 0)

\* the running score: each branch adds or subtracts its points
rawScoreOf(c) ==
  LET s0 == 0
      s1 == IF c.https THEN s0 + 2 ELSE s0
      s2 == IF c.ssl THEN s1 + 2 ELSE s1
      s3 == IF ~c.blacklisted THEN s2 + 2 ELSE s2 - 2
      s4 == IF c.clean THEN s3 + 1 ELSE s3
      s5 == IF ~c.suspicious THEN s4 + 1 ELSE s4 - 1
      s6 == IF c.established THEN s5 + 1 ELSE s5
      s7 == IF ~c.redirects THEN s6 + 1 ELSE s6 - 1
  IN s7

\* mutant: the total is not clamped
safetyUnclamped(c) == rawScoreOf(c)

\* score = clamp(Math.round(score), 0, 10); the sum is an integer, which
\* Math.round leaves as it is
safetyOf(c) == clamp(rawScoreOf(c), 0, 10)

BreakdownKeys ==
  {"https", "ssl", "blacklisted", "cleanDomain", "suspiciousKeywords", "domainAge",
   "redirects"}

RECURSIVE SumOver(_, _)
SumOver(f, keys) ==
  IF keys = {} THEN 0
  ELSE LET k == CHOOSE x \in keys : TRUE IN f[k] + SumOver(f, keys \ {k})

\* Object.values(breakdown).filter(v => v > 0).reduce((a, b) => a + b, 0)
positiveScoreOf(breakdown) ==
  SumOver([k \in BreakdownKeys |-> IF breakdown[k] > 0 THEN breakdown[k] ELSE 0],
          BreakdownKeys)

\* confidence = clamp(positiveScore / 10) with clamp's default limits 0 and
\* 1e9.  The model keeps confidence in tenths, confidence10 = 10 * confidence;
\* the upper limit, 1e10 tenths, lies above every integer of the model, so
\* only the lower limit acts.
confidence10Of(breakdown) == Max(0, positiveScoreOf(breakdown))

Pick(cond, reason) == IF cond THEN <<reason>> ELSE <<>>

\* mutant: the caution for missing HTTPS is pushed before the one for redirects
reasonsMisordered(safety, b) ==
  LET cautions ==
        IF safety <= 6
        THEN Pick(b.blacklisted = -2, "Domain is flagged on threat lists.")
             \o Pick(b.suspiciousKeywords = -1, "URL contains suspicious, urgent keywords.")
             \o Pick(b.https = 0, "Missing HTTPS for a secure connection.")
             \o Pick(b.redirects = -1, "Excessive redirects or shortener detected.")
             \o Pick(b.ssl = 0, "Missing or invalid SSL Certificate.")
             \o Pick(b.domainAge = 0, "Domain is less than 6 months old.")
        ELSE <<>>
      confirmations ==
        IF Len(cautions) = 0 \/ safety > 6
        THEN Pick(b.https = 2, "Uses HTTPS for a secure connection.")
             \o Pick(b.ssl = 2, "Valid SSL Certificate detected.")
             \o Pick(b.blacklisted = 2, "Domain is not flagged on threat lists.")
             \o Pick(b.cleanDomain = 1, "Domain name is short and clean.")
             \o Pick(b.suspiciousKeywords = 1, "No suspicious keywords found.")
             \o Pick(b.domainAge = 1, "Domain is established (over 6 months old).")
             \o Pick(b.redirects = 1, "No excessive redirects detected.")
        ELSE <<>>
  IN cautions \o confirmations

\* mutant: the cautions are listed below safety 6 only
reasonsBelowSix(safety, b) ==
  LET cautions ==
        IF safety < 6
        THEN Pick(b.blacklisted = -2, "Domain is flagged on threat lists.")
             \o Pick(b.suspiciousKeywords = -1, "URL contains suspicious, urgent keywords.")
             \o Pick(b.redirects = -1, "Excessive redirects or shortener detected.")
             \o Pick(b.https = 0, "Missing HTTPS for a secure connection.")
             \o Pick(b.ssl = 0, "Missing or invalid SSL Certificate.")
             \o Pick(b.domainAge = 0, "Domain is less than 6 months old.")
        ELSE <<>>
      confirmations ==
        IF Len(cautions) = 0 \/ safety > 6
        THEN Pick(b.https = 2, "Uses HTTPS for a secure connection.")
             \o Pick(b.ssl = 2, "Valid SSL Certificate detected.")
             \o Pick(b.blacklisted = 2, "Domain is not flagged on threat lists.")
             \o Pick(b.cleanDomain = 1, "Domain name is short and clean.")
             \o Pick(b.suspiciousKeywords = 1, "No suspicious keywords found.")
             \o Pick(b.domainAge = 1, "Domain is established (over 6 months old).")
             \o Pick(b.redirects = 1, "No excessive redirects detected.")
        ELSE <<>>
      reasons == cautions \o confirmations
  IN IF Len(reasons) = 0
     THEN <<"Analysis complete. No specific flags found, but score is 0. Check for valid domain format.">>
     ELSE reasons

\* the reasons list; the confirmations are written without their leading
\* check mark
reasonsOf(safety, b) ==
  LET cautions ==
        IF safety <= 6
        THEN Pick(b.blacklisted = -2, "Domain is flagged on threat lists.")
             \o Pick(b.suspiciousKeywords = -1, "URL contains suspicious, urgent keywords.")
             \o Pick(b.redirects = -1, "Excessive redirects or shortener detected.")
             \o Pick(b.https = 0, "Missing HTTPS for a secure connection.")
             \o Pick(b.ssl = 0, "Missing or invalid SSL Certificate.")
             \o Pick(b.domainAge = 0, "Domain is less than 6 months old.")
        ELSE <<>>
      confirmations ==
        IF Len(cautions) = 0 \/ safety > 6
        THEN Pick(b.https = 2, "Uses HTTPS for a secure connection.")
             \o Pick(b.ssl = 2, "Valid SSL Certificate detected.")
             \o Pick(b.blacklisted = 2, "Domain is not flagged on threat lists.")
             \o Pick(b.cleanDomain = 1, "Domain name is short and clean.")
             \o Pick(b.suspiciousKeywords = 1, "No suspicious keywords found.")
             \o Pick(b.domainAge = 1, "Domain is established (over 6 months old).")
             \o Pick(b.redirects = 1, "No excessive redirects detected.")
        ELSE <<>>
      reasons == cautions \o confirmations
  IN IF Len(reasons) = 0
     THEN <<"Analysis complete. No specific flags found, but score is 0. Check for valid domain format.">>
     ELSE reasons

(***************************************************************************)
(* Timestamps.  An instant is [month, day, sec]: a day of the current year *)
(* and the second of that day.  A result is stamped with the text          *)
(* new Date().toLocaleString(), which the comparators read back with       *)
(* new Date(text).getTime().                                               *)
(***************************************************************************)
Locales == {"en-US", "en-GB"}

\* Date.prototype.toLocaleString() in the locale of the browser: the text
\* names the month first in en-US (1/3/2026, 12:00:07 AM) and the day first
\* in en-GB (03/01/2026, 00:00:07); milliseconds are not printed.  The text
\* is kept as its numbers in the order they are printed.
toLocaleString(t, locale) ==
  IF locale = "en-US"
  THEN [first |-> t.month, second |-> t.day, sec |-> t.sec]
  ELSE [first |-> t.day, second |-> t.month, sec |-> t.sec]

\* new Date(text).getTime(): the text is not in the ISO format, and the
\* constructor reads it as month/day/year; a month above 12 gives an Invalid
\* Date, whose time is NaN.  The time is kept in seconds from the start of
\* the year: the text has no milliseconds.
getTime(text) ==
  IF text.first \in 1..12 /\ text.second \in 1..31
  THEN [nan |-> FALSE, time |-> (text.first * 31 + text.second) * 86400 + text.sec]
  ELSE [nan |-> TRUE, time |-> 0]

\* the n-th second of the session
SessionTime(n) == [month |-> 1, day |-> 1, sec |-> n]

\* the ScanResult built by scoreUrl; id is the fresh crypto.randomUUID() and
\* now the text of new Date().toLocaleString()
scoreUrl(raw, id, now) ==
  LET c == checksOf(raw)
      breakdown == breakdownOf(c)
      safety == safetyOf(c)
  IN [id |-> id,
      url |-> IF StartsWithHttp(raw) THEN raw ELSE <<"https:", "/", "/">> \o raw,
      safety |-> safety,
      tier |-> scoreTier(safety),
      color |-> scoreColor(safety),
      confidence10 |-> confidence10Of(breakdown),
      reasons |-> reasonsOf(safety, breakdown),
      breakdown |-> breakdown,
      timestamp |-> now,
      likes |-> 0,
      dislikes |-> 0,
      userReaction |-> "none",
      apiCheck |-> Null]

(***************************************************************************)
(* Ranking of the main view.                                               *)
(***************************************************************************)
tierOrder(tier) ==
  CASE tier = "High Risk" -> 0
    [] tier = "Be Careful" -> 1
    [] tier = "Safe" -> 2

\* the comparator: negative when a sorts before b.  dateB - dateA is NaN when
\* either time is NaN, and Array.prototype.sort takes a NaN as 0
sortScans(a, b) ==
  IF tierOrder(a.tier) # tierOrder(b.tier) THEN tierOrder(a.tier) - tierOrder(b.tier)
  ELSE IF a.dislikes # b.dislikes THEN b.dislikes - a.dislikes
  ELSE LET dateA == getTime(a.timestamp)
           dateB == getTime(b.timestamp)
       IN IF dateA.nan \/ dateB.nan THEN 0 ELSE dateB.time - dateA.time

\* Array.prototype.sort is stable: x goes behind every element it does not precede
RECURSIVE InsertSorted(_, _)
InsertSorted(x, sorted) ==
  IF sorted = <<>> THEN <<x>>
  ELSE LET last == sorted[Len(sorted)]
       IN IF sortScans(x, last) < 0
          THEN InsertSorted(x, SubSeq(sorted, 1, Len(sorted) - 1)) \o <<last>>
          ELSE sorted \o <<x>>

RECURSIVE SortHistory(_)
SortHistory(list) ==
  IF list = <<>> THEN <<>>
  ELSE InsertSorted(list[Len(list)], SortHistory(SubSeq(list, 1, Len(list) - 1)))

\* list.slice(0, n)
Slice(list, n) == SubSeq(list, 1, Min(n, Len(list)))

MapSeq(list, Op(_)) == [i \in 1..Len(list) |-> Op(list[i])]

(***************************************************************************)
(* Storage keys.                                                           *)
(***************************************************************************)
\* text.replace(/[.#$/\[\]]/g, "_") on one token
Sanitize(t) ==
  CASE t = "/" -> "_"
    [] t = "www." -> "www_"
    [] t = ".com" -> "_com"
    [] t = "google.com" -> "google_com"
    [] t = "bit.ly" -> "bit_ly"
    [] OTHER -> t

safeKey(url) ==
  LET normalized == IF StartsWithHttp(url) THEN url ELSE <<"https:", "/", "/">> \o url
  IN IF UrlParses(normalized)
     THEN LET rest == SubSeq(normalized, 4, Len(normalized))
              k == IndexOfSlash(rest)
              hostname == IF k = 0 THEN rest ELSE SubSeq(rest, 1, k - 1)
              pathname == IF k = 0 THEN <<"/">> ELSE SubSeq(rest, k, Len(rest))
          IN MapSeq(hostname, Sanitize) \o MapSeq(pathname, Sanitize)
     ELSE MapSeq(url, Sanitize)

\* safeKey of the community view and safeKey of firebase.ts: the whole text
\* with the characters . # $ / [ ] replaced
Community_safeKey(url) == MapSeq(url, Sanitize)

firebase_safeKey(url) == MapSeq(url, Sanitize)

(***************************************************************************)
(* The remote reputation service.                                          *)
(***************************************************************************)
\* the sub-check lists of a response body: none, one of each kind, and mixed
Passed == [checked |-> TRUE, status |-> "clean"]
Unchecked == [checked |-> FALSE, status |-> "clean"]
Errored == [checked |-> TRUE, status |-> "error"]

CheckLists ==
  {<<>>, <<Passed>>, <<Unchecked>>, <<Errored>>, <<Passed, Errored>>, <<Errored, Unchecked>>}

\* what realExternalLookup resolves to: Null on a transport error or a
\* non-success status, the response body otherwise; hasChecks is FALSE when
\* the body has no checks member
Responses ==
  {Null} \cup
  [finalVerdict : {"malicious", "suspicious", "clean"},
   summary : {"summary"},
   hasChecks : {TRUE},
   checks : CheckLists] \cup
  [finalVerdict : {"malicious", "suspicious", "clean"},
   summary : {"summary"},
   hasChecks : {FALSE},
   checks : {<<>>}]

didAllApisFail(ext) ==
  IF ~ext.hasChecks THEN FALSE
  ELSE \A i \in 1..Len(ext.checks) :
         ext.checks[i].checked = FALSE \/ ext.checks[i].status = "error"

\* mutant: the limits of the two verdicts are swapped
finalSafetySwapped(safety, ext) ==
  IF ext.finalVerdict = "malicious" THEN Min(safety, 4)
  ELSE IF ext.finalVerdict = "suspicious" THEN Min(safety, 1)
  ELSE safety

\* mutant: a verdict that is neither malicious nor suspicious raises the score
finalSafetyRaised(safety, ext) ==
  IF ext.finalVerdict = "malicious" THEN Min(safety, 1)
  ELSE IF ext.finalVerdict = "suspicious" THEN Min(safety, 4)
  ELSE Min(safety + 1, 10)

\* the safety after the verdict was applied to the captured scan
finalSafetyOf(safety, ext) ==
  IF ext.finalVerdict = "malicious" THEN Min(safety, 1)
  ELSE IF ext.finalVerdict = "suspicious" THEN Min(safety, 4)
  ELSE safety

apiCheckOf(ext) ==
  LET allFailed == didAllApisFail(ext)
  IN [done |-> TRUE,
      failed |-> allFailed,
      note |-> IF allFailed THEN "External API scan failed" ELSE ext.summary,
      checks |-> ext.checks]

\* updatedScan of runExternalCheck, built from the scan of its closure
updatedScanOf(captured, ext) ==
  LET finalSafety == finalSafetyOf(captured.safety, ext)
  IN [captured EXCEPT !.safety = finalSafety,
                      !.tier = finalTier(finalSafety),
                      !.color = finalColor(finalSafety),
                      !.apiCheck = apiCheckOf(ext)]

(***************************************************************************)
(* Input validation and the domain existence gate.                         *)
(***************************************************************************)
TldTokens == {".com", "google.com", "bit.ly"}
DotEndTokens == {"www."}
DotStartTokens == {".com"}
LabelTokens ==
  {"www.", ".com", "google.com", "bit.ly", "example", "badsite", "-", "login", "new-",
   "x", "verify", "account", "selfsigned", "redirect"}

\* /^([a-zA-Z0-9-]+\.)+[a-zA-Z]{2,}(\/.*)?$/ on the text before the first slash
DomainShaped(v) ==
  LET k == IndexOfSlash(v)
      host == IF k = 0 THEN v ELSE SubSeq(v, 1, k - 1)
  IN /\ host # <<>>
     /\ \A i \in 1..Len(host) : host[i] \in LabelTokens
     /\ host[Len(host)] \in TldTokens
     /\ host[1] \notin DotStartTokens
     /\ \A i \in 2..Len(host) :
          host[i] \in DotStartTokens => host[i - 1] \notin DotEndTokens

validateInput(v) ==
  IF v = <<>> THEN FALSE
  ELSE DomainShaped(v) \/ StartsWithHttpScheme(v) \/ StartsWithHttpsScheme(v)

wellKnownDomains ==
  {"google.com", "youtube.com", "facebook.com", "amazon.com", "ebay.com", "wikipedia.org",
   "twitter.com", "instagram.com", "linkedin.com", "microsoft.com", "apple.com",
   "netflix.com", "github.com", "stackoverflow.com", "khanacademy.org", "coursera.org"}

isWellKnown(host) ==
  LET cleanHost == IF host # <<>> /\ host[1] = "www." THEN Tail(host) ELSE host
  IN \/ Len(cleanHost) = 1 /\ cleanHost[1] \in wellKnownDomains
     \/ /\ Len(cleanHost) > 1
        /\ cleanHost[Len(cleanHost)] \in wellKnownDomains
        /\ cleanHost[Len(cleanHost) - 1] \in DotEndTokens

\* probes[i] tells whether the fetch of the i-th favicon URL resolves
isDomainValid(host, probes) ==
  IF isWellKnown(host) THEN TRUE
  ELSE \E i \in 1..4 : probes[i]

(***************************************************************************)
(* The App component and the store.                                        *)
(***************************************************************************)
VARIABLES
  scan,       \* useState scan: the displayed result, or Null
  history,    \* useState history: the recent-scans list
  loading,    \* useState loading
  error,      \* useState error, "none" for null
  dbHistory,  \* the store's history/ records, in push-key order
  dbLinks,    \* the store's links/ records, by storage key
  pending,    \* onValue callbacks that await get(links), by their snapshot
  an,         \* the handleAnalyze call: its position and what it closes over
  chk,        \* the runExternalCheck call: its position and what it closes over
  nsubmits,   \* number of submissions that passed validation
  clicks      \* the reaction and comment clicks so far, and the community view's
              \* running handleLike and handleDislike calls

vars == <<scan, history, loading, error, dbHistory, dbLinks, pending, an, chk, nsubmits, clicks>>

\* the raw inputs a user submits
Inputs ==
  {<<"http:", "/", "/", "example", ".com">>,
   <<"example", ".com">>,
   <<"http:", "/", "/", "badsite", "-", "login", ".com", "/", "verify", "-", "account">>,
   <<"example">>}

\* sent are the probes isDomainValid has issued (1..4, in the order of
\* urlsToTry) and failed those whose fetch was rejected or aborted
NoFlow ==
  [pc |-> "idle", input |-> <<>>, closure |-> Null, result |-> Null, req |-> <<>>,
   sent |-> {}, failed |-> {}]
NoCheck == [pc |-> "idle", scan |-> Null, auto |-> FALSE, ext |-> Null]
NoClicks == [n |-> 0, calls |-> {}]

Init ==
  /\ scan = Null
  /\ history = <<>>
  /\ loading = FALSE
  /\ error = "none"
  /\ dbHistory = <<>>
  /\ dbLinks = <<>>
  /\ pending = {}
  /\ an = NoFlow
  /\ chk = NoCheck
  /\ nsubmits = 0
  /\ clicks = NoClicks

\* handleAnalyze up to its first await: validation, then isDomainValid up to
\* its first await: a well-known host needs no probe, for any other host the
\* first probe is issued
Submit(input, limit) ==
  /\ ~loading
  /\ nsubmits < limit
  /\ IF ~validateInput(input)
     THEN /\ error' = "Please enter a valid address like example.com or https://example.com"
          /\ UNCHANGED <<scan, loading, an>>
     ELSE /\ error' = "none"
          /\ loading' = TRUE
          /\ scan' = Null
          /\ an' = [pc |-> "gate", input |-> input, closure |-> scan, result |-> Null,
                    req |-> <<>>,
                    sent |-> IF isWellKnown(parseHost(input).host) THEN {} ELSE {1},
                    failed |-> {}]
  /\ nsubmits' = IF validateInput(input) THEN nsubmits + 1 ELSE nsubmits
  /\ UNCHANGED clicks
  /\ UNCHANGED <<history, dbHistory, dbLinks, pending, chk>>

\* the outcomes of the four probes when those of failed were rejected or aborted
ProbeOutcomes(failed) == [i \in 1..4 |-> i \notin failed]

\* mutant: the next probe is issued, but the one that timed out stays in flight
ProbeFailsUnaborted ==
  /\ an.pc = "gate"
  /\ \E i \in an.sent \ an.failed :
       /\ i < 4
       /\ an' = [an EXCEPT !.sent = an.sent \cup {i + 1}]
  /\ UNCHANGED <<scan, history, loading, error, dbHistory, dbLinks, pending, chk, nsubmits, clicks>>

\* the fetch of a probe was rejected, or aborted after 3000 ms: the loop
\* continues with the next URL
ProbeFails ==
  /\ an.pc = "gate"
  /\ \E i \in an.sent \ an.failed :
       /\ i < 4
       /\ an' = [an EXCEPT !.failed = an.failed \cup {i}, !.sent = an.sent \cup {i + 1}]
  /\ UNCHANGED <<scan, history, loading, error, dbHistory, dbLinks, pending, chk, nsubmits, clicks>>

\* the last probe failed too, isDomainValid resolved false: the submit is
\* rejected
GateRejects ==
  /\ an.pc = "gate"
  /\ 4 \in an.sent \ an.failed
  /\ ~isDomainValid(parseHost(an.input).host, ProbeOutcomes(an.failed \cup {4}))
  /\ error' = "The domain does not exist or cannot be reached."
  /\ loading' = FALSE
  /\ an' = NoFlow
  /\ UNCHANGED <<scan, history, dbHistory, dbLinks, pending, chk, nsubmits, clicks>>

\* isDomainValid resolved true, for a well-known host or because the fetch of
\* the probe in flight resolved: scoreUrl is awaited
GateAccepts ==
  /\ an.pc = "gate"
  /\ \/ isWellKnown(parseHost(an.input).host)
     \/ an.sent \ an.failed # {}
  /\ isDomainValid(parseHost(an.input).host, ProbeOutcomes(an.failed))
  /\ an' = [an EXCEPT !.pc = "scoring", !.sent = {}, !.failed = {}]
  /\ UNCHANGED <<scan, history, loading, error, dbHistory, dbLinks, pending, chk, nsubmits, clicks>>

\* the gate has passed and scoreUrl resolved: the result is shown and put in
\* front of the list; saveScanToFirebase is awaited.  The session of the
\* component runs in the en-US locale.
GatePasses ==
  /\ an.pc = "scoring"
  /\ LET scanResult == scoreUrl(an.input, <<"uuid", nsubmits>>,
                                toLocaleString(SessionTime(nsubmits), "en-US"))
     IN /\ scan' = scanResult
        /\ history' = Slice(<<scanResult>> \o history, 5)
        /\ an' = [an EXCEPT !.pc = "saving", !.result = scanResult]
  /\ UNCHANGED <<loading, error, dbHistory, dbLinks, pending, chk, nsubmits, clicks>>

\* the record saveScanToFirebase writes under history/: the result with the
\* push key as its id
scanWithId(scanResult) == [scanResult EXCEPT !.id = <<"key", scanResult.id[2]>>]

\* the record saveScanToFirebase writes under links/{key}
linksRecordOf(scanResult) ==
  [likes |-> scanResult.likes, dislikes |-> scanResult.dislikes,
   userReaction |-> scanResult.userReaction, comments |-> <<>>]

PutLink(links, key, rec) ==
  [k \in (DOMAIN links) \cup {key} |-> IF k = key THEN rec ELSE links[k]]

\* whether the automatic check after the save is due
autoCheckDue(scanResult) == scanResult.safety > 3 /\ scanResult.safety <= 6

\* saveScanToFirebase resolved (either write may fail, which is logged), then
\* the automatic check: runExternalCheck of the render that handled the submit
Saved ==
  /\ an.pc = "saving"
  /\ \E outcome \in {"ok", "history only", "failed"} :
       /\ IF outcome = "failed"
          THEN UNCHANGED <<dbHistory, pending>>
          ELSE /\ dbHistory' = Append(dbHistory, scanWithId(an.result))
               /\ pending' = pending \cup {dbHistory'}
       /\ IF outcome = "ok"
          THEN dbLinks' = PutLink(dbLinks, safeKey(an.result.url), linksRecordOf(an.result))
          ELSE UNCHANGED dbLinks
  /\ IF autoCheckDue(an.result) /\ an.closure # Null
     THEN /\ loading' = TRUE
          /\ error' = "none"
          /\ chk' = [pc |-> "fetching", scan |-> an.closure, auto |-> TRUE, ext |-> Null]
          /\ an' = [an EXCEPT !.pc = "auto", !.req = an.closure.url]
     ELSE /\ loading' = FALSE
          /\ an' = NoFlow
          /\ UNCHANGED <<error, chk>>
  /\ UNCHANGED <<scan, history, nsubmits, clicks>>

\* mutant: the api-btn is not disabled while loading
RunApiCheckUnguarded ==
  /\ scan # Null
  /\ scan.safety > 3
  /\ ~(scan.apiCheck # Null /\ scan.apiCheck.done)
  /\ loading' = TRUE
  /\ error' = "none"
  /\ chk' = [pc |-> "fetching", scan |-> scan, auto |-> FALSE, ext |-> Null]
  /\ UNCHANGED <<scan, history, dbHistory, dbLinks, pending, an, nsubmits, clicks>>

\* the api-btn: runExternalCheck of the current render, up to its await
RunApiCheck ==
  /\ scan # Null
  /\ scan.safety > 3
  /\ ~loading
  /\ ~(scan.apiCheck # Null /\ scan.apiCheck.done)
  /\ loading' = TRUE
  /\ error' = "none"
  /\ chk' = [pc |-> "fetching", scan |-> scan, auto |-> FALSE, ext |-> Null]
  /\ UNCHANGED <<scan, history, dbHistory, dbLinks, pending, an, nsubmits, clicks>>

\* setHistory(prev => prev.map(s => s.id === scan.id ? updatedScan : s).sort(sortScans).slice(0, 5))
historyAfterCheck(prev, captured, updatedScan) ==
  Slice(SortHistory([i \in 1..Len(prev) |->
                       IF prev[i].id = captured.id THEN updatedScan ELSE prev[i]]), 5)

\* realExternalLookup resolved with ext
Responds ==
  /\ chk.pc = "fetching"
  /\ \E ext \in Responses : chk' = [chk EXCEPT !.pc = "resolved", !.ext = ext]
  /\ UNCHANGED <<scan, history, loading, error, dbHistory, dbLinks, pending, an, nsubmits, clicks>>

\* the rest of runExternalCheck, and the end of handleAnalyze when it awaited
\* the check
CheckDone ==
  /\ chk.pc = "resolved"
  /\ IF chk.ext = Null
     THEN /\ error' = "External API scan failed"
          /\ UNCHANGED <<scan, history>>
     ELSE /\ scan' = updatedScanOf(chk.scan, chk.ext)
          /\ history' = historyAfterCheck(history, chk.scan, updatedScanOf(chk.scan, chk.ext))
          /\ UNCHANGED error
  /\ chk' = NoCheck
  /\ loading' = FALSE
  /\ an' = IF chk.auto THEN NoFlow ELSE an
  /\ UNCHANGED <<dbHistory, dbLinks, pending, nsubmits, clicks>>

\* the new-btn
NewCheck ==
  /\ scan # Null
  /\ scan' = Null
  /\ UNCHANGED <<history, loading, error, dbHistory, dbLinks, pending, an, chk, nsubmits, clicks>>

\* the record the onValue listener builds for a stored scan; the listener
\* closes over the history of the first render, which is empty
mergedOf(stored, links) ==
  LET key == safeKey(stored.url)
      reaction == IF key \in DOMAIN links THEN links[key] ELSE <<>>
      known == "likes" \in DOMAIN reaction
  IN [stored EXCEPT !.likes = IF known THEN reaction.likes ELSE stored.likes,
                    !.dislikes = IF known THEN reaction.dislikes ELSE stored.dislikes,
                    !.userReaction = IF known THEN reaction.userReaction ELSE "none"]

\* an onValue callback got its links and replaces the list
Deliver ==
  /\ \E snapshot \in pending :
       /\ pending' = pending \ {snapshot}
       /\ history' = Slice(SortHistory([i \in 1..Len(snapshot) |->
                                          mergedOf(snapshot[i], dbLinks)]), 5)
  /\ UNCHANGED <<scan, loading, error, dbHistory, dbLinks, an, chk, nsubmits, clicks>>

\* the counters and the reaction of a list entry
reactionOf(h) == [likes |-> h.likes, dislikes |-> h.dislikes, userReaction |-> h.userReaction]

\* a like click that leaves the other counter alone when the reaction switches
likeClickedKeepsDislikes(h) ==
  IF h.userReaction = "like"
  THEN [likes |-> h.likes - 1, dislikes |-> h.dislikes, userReaction |-> "none"]
  ELSE [likes |-> h.likes + 1, dislikes |-> h.dislikes, userReaction |-> "like"]

\* what the like button computes from the entry it belongs to
likeClicked(h) ==
  IF h.userReaction = "like"
  THEN [likes |-> h.likes - 1, dislikes |-> h.dislikes, userReaction |-> "none"]
  ELSE [likes |-> h.likes + 1,
        dislikes |-> IF h.userReaction = "dislike" THEN h.dislikes - 1 ELSE h.dislikes,
        userReaction |-> "like"]

\* what the dislike button computes from the entry it belongs to
dislikeClicked(h) ==
  IF h.userReaction = "dislike"
  THEN [likes |-> h.likes, dislikes |-> h.dislikes - 1, userReaction |-> "none"]
  ELSE [likes |-> IF h.userReaction = "like" THEN h.likes - 1 ELSE h.likes,
        dislikes |-> h.dislikes + 1,
        userReaction |-> "dislike"]

\* set() of the reaction buttons replaces the node links/{key}, so the
\* comments stored under it are removed; then the entry is updated and the
\* list sorted
React(h, r) ==
  /\ clicks.n < MaxClicks
  /\ clicks' = [clicks EXCEPT !.n = @ + 1]
  /\ dbLinks' = PutLink(dbLinks, safeKey(h.url),
                        [likes |-> r.likes, dislikes |-> r.dislikes,
                         userReaction |-> r.userReaction, comments |-> <<>>])
  /\ history' = SortHistory([j \in 1..Len(history) |->
                   IF history[j].id = h.id
                   THEN [history[j] EXCEPT !.likes = r.likes, !.dislikes = r.dislikes,
                                           !.userReaction = r.userReaction]
                   ELSE history[j]])
  /\ UNCHANGED <<scan, loading, error, dbHistory, pending, an, chk, nsubmits>>

\* the like button of list entry i
Like(i) == i \in 1..Len(history) /\ React(history[i], likeClicked(history[i]))

\* the dislike button of list entry i
Dislike(i) == i \in 1..Len(history) /\ React(history[i], dislikeClicked(history[i]))

\* the comments stored under links/{key}, in push-key order
commentsAt(links, key) ==
  IF key \in DOMAIN links /\ "comments" \in DOMAIN links[key]
  THEN links[key].comments ELSE <<>>

\* the Comment button of list entry i with a non-empty text:
\* addCommentWithImages pushes the comment under links/{key}/comments
AddComment(i) ==
  /\ i \in 1..Len(history)
  /\ clicks.n < MaxClicks
  /\ clicks' = [clicks EXCEPT !.n = @ + 1]
  /\ LET key == safeKey(history[i].url)
         newComment == clicks.n + 1
         comments == Append(commentsAt(dbLinks, key), newComment)
     IN dbLinks' = PutLink(dbLinks, key,
                           IF key \in DOMAIN dbLinks
                           THEN [dbLinks[key] EXCEPT !.comments = comments]
                           ELSE [comments |-> comments])
  /\ UNCHANGED <<scan, history, loading, error, dbHistory, pending, an, chk, nsubmits>>

\* the clear-btn: the list and both store paths are emptied; the listener
\* sets the empty list as soon as it sees the empty snapshot
clearHistory ==
  /\ history' = <<>>
  /\ dbHistory' = <<>>
  /\ dbLinks' = <<>>
  /\ UNCHANGED <<scan, loading, error, pending, an, chk, nsubmits, clicks>>

\* the steps of the component with at most limit validated submissions
Steps(limit) ==
  \/ \E input \in Inputs : Submit(input, limit)
  \/ ProbeFails
  \/ GateRejects
  \/ GateAccepts
  \/ GatePasses
  \/ Saved
  \/ RunApiCheck
  \/ Responds
  \/ CheckDone
  \/ NewCheck
  \/ Deliver
  \/ clearHistory

Next == Steps(MaxScans)

Spec == Init /\ [][Next]_vars

\* the same component when one more submission follows
NextRescan == Steps(MaxScans + 1)

SpecRescan == Init /\ [][NextRescan]_vars

(***************************************************************************)
(* Scoring and re-tiering as functions: every raw input of ScoreInputs is  *)
(* scored, and every response body is applied to the scored result.        *)
(***************************************************************************)
Schemes == {<<>>, <<"http:", "/", "/">>, <<"https:", "/", "/">>}

Hosts ==
  {<<>>,
   <<"example", ".com">>,
   <<"www.", "google.com">>,
   <<"bit.ly">>,
   <<"badsite", "-", "login", ".com">>,
   <<"new-", "example", ".com">>,
   <<"www.", "x", ".com">>,
   <<"badsite", ".com">>}

Paths ==
  {<<>>,
   <<"/">>,
   <<"/", "verify", "-", "account">>,
   <<"/", "redirect">>,
   <<"/", "selfsigned">>}

ScoreInputs == {scheme \o host \o path : scheme \in Schemes, host \in Hosts, path \in Paths}

InitScore ==
  /\ scan = Null
  /\ history = <<>>
  /\ loading = FALSE
  /\ error = "none"
  /\ dbHistory = <<>>
  /\ dbLinks = <<>>
  /\ pending = {}
  /\ \E raw \in ScoreInputs : an = [NoFlow EXCEPT !.input = raw]
  /\ chk = NoCheck
  /\ nsubmits = 0
  /\ clicks = NoClicks

\* scoreUrl applied to the input
Scores ==
  /\ scan = Null
  /\ scan' = scoreUrl(an.input, <<"uuid", 1>>, toLocaleString(SessionTime(1), "en-US"))
  /\ UNCHANGED <<history, loading, error, dbHistory, dbLinks, pending, an, chk, nsubmits, clicks>>

\* the verdict of a response body applied to the scored result
Reconciles ==
  /\ scan # Null
  /\ scan.apiCheck = Null
  /\ \E ext \in Responses \ {Null} : scan' = updatedScanOf(scan, ext)
  /\ UNCHANGED <<history, loading, error, dbHistory, dbLinks, pending, an, chk, nsubmits, clicks>>

NextScore == Scores \/ Reconciles

SpecScore == InitScore /\ [][NextScore]_vars

(***************************************************************************)
(* Ranking as a function: stored scans are delivered to the list views and *)
(* ranked there.  The main view (App.tsx) ranks by tier, dislikes and      *)
(* timestamp, the community view (Community.tsx) by tier, dislikes, likes  *)
(* and timestamp.                                                          *)
(***************************************************************************)
\* the comparator of the community view
Community_sortScans(a, b) ==
  LET tierPriority(tier) ==
        IF tier = "High Risk" THEN 3
        ELSE IF tier = "Be Careful" THEN 2
        ELSE IF tier = "Safe" THEN 1 ELSE 0
      tierDiff == tierPriority(b.tier) - tierPriority(a.tier)
      dislikesDiff == b.dislikes - a.dislikes
      likesDiff == b.likes - a.likes
      dateA == getTime(a.timestamp)
      dateB == getTime(b.timestamp)
  IN IF tierDiff # 0 THEN tierDiff
     ELSE IF dislikesDiff # 0 THEN dislikesDiff
     ELSE IF likesDiff # 0 THEN likesDiff
     ELSE IF dateA.nan \/ dateB.nan THEN 0 ELSE dateB.time - dateA.time

\* data.sort(sortScans) in the community view
RECURSIVE Community_InsertSorted(_, _)
Community_InsertSorted(x, sorted) ==
  IF sorted = <<>> THEN <<x>>
  ELSE LET last == sorted[Len(sorted)]
       IN IF Community_sortScans(x, last) < 0
          THEN Community_InsertSorted(x, SubSeq(sorted, 1, Len(sorted) - 1)) \o <<last>>
          ELSE sorted \o <<x>>

RECURSIVE Community_Sort(_)
Community_Sort(list) ==
  IF list = <<>> THEN <<>>
  ELSE Community_InsertSorted(list[Len(list)],
                              Community_Sort(SubSeq(list, 1, Len(list) - 1)))

\* the onValue listener of the community view got a snapshot of history/
Community_Deliver ==
  /\ \E snapshot \in pending :
       /\ pending' = pending \ {snapshot}
       /\ history' = Slice(Community_Sort(snapshot), 20)
  /\ UNCHANGED <<scan, loading, error, dbHistory, dbLinks, an, chk, nsubmits, clicks>>

\* the instants at which the stored scans were pushed: push keys are handed
\* out in the order of time; the first two scans fall into the same second
PushTime(n) ==
  IF n <= 2 THEN [month |-> 1, day |-> 3, sec |-> 7] ELSE [month |-> 2, day |-> 1, sec |-> 7]

\* the seconds from the start of the year to an instant
SecondsOf(t) == (t.month * 31 + t.day) * 86400 + t.sec

\* a stored scan: the n-th push, stamped in the locale of the browser that
\* scanned it, with the reactions the community view wrote to it
StoredScan(n, tier, dislikes, likes, locale) ==
  LET safety == IF tier = "High Risk" THEN 1 ELSE IF tier = "Be Careful" THEN 5 ELSE 8
  IN [id |-> <<"key", n>>,
      url |-> <<"https:", "/", "/", "example", ".com">>,
      safety |-> safety,
      tier |-> tier,
      color |-> scoreColor(safety),
      timestamp |-> toLocaleString(PushTime(n), locale),
      likes |-> likes,
      dislikes |-> dislikes,
      userReaction |-> "none",
      apiCheck |-> Null]

Tiers == {"High Risk", "Be Careful", "Safe"}

\* the snapshots of history/: three stored scans in push-key order
Snapshots ==
  {[n \in 1..3 |-> StoredScan(n, tiers[n], dislikes[n], likes[n], locale)] :
     tiers \in [1..3 -> Tiers], dislikes \in [1..3 -> {0, 1}], likes \in [1..3 -> {0, 1}],
     locale \in Locales}

InitRank ==
  /\ scan = Null
  /\ history = <<>>
  /\ loading = FALSE
  /\ error = "none"
  /\ dbLinks = <<>>
  /\ \E snapshot \in Snapshots : dbHistory = snapshot /\ pending = {snapshot}
  /\ an = NoFlow
  /\ chk = NoCheck
  /\ nsubmits = 0
  /\ clicks = NoClicks

\* the main view ranks the snapshot
NextRank == Deliver

SpecRank == InitRank /\ [][NextRank]_vars

\* either view ranks the snapshot
NextRankViews == Deliver \/ Community_Deliver

SpecRankViews == InitRank /\ [][NextRankViews]_vars

(***************************************************************************)
(* The domain existence gate on its own: an input of ScoreInputs is        *)
(* submitted and isDomainValid runs to its end.  Every fetch resolves, is  *)
(* rejected, or is aborted by its timer after 3000 ms, so a pending step   *)
(* of the gate is eventually taken.                                        *)
(***************************************************************************)
GateResolves == ProbeFails \/ GateRejects \/ GateAccepts

NextGate == (\E input \in ScoreInputs : Submit(input, MaxScans)) \/ GateResolves

SpecGate == Init /\ [][NextGate]_vars /\ WF_vars(GateResolves)

(***************************************************************************)
(* The reactions and comments of the main view: one viewer submits the     *)
(* spellings of one address and uses the like, dislike and Comment buttons *)
(* of the list.                                                            *)
(***************************************************************************)
ReactInputs ==
  {<<"example", ".com">>,
   <<"http:", "/", "/", "example", ".com">>}

NextReact ==
  \/ \E input \in ReactInputs : Submit(input, MaxScans + 1)
  \/ ProbeFails
  \/ GateRejects
  \/ GateAccepts
  \/ GatePasses
  \/ Saved
  \/ Responds
  \/ CheckDone
  \/ Deliver
  \/ \E i \in 1..Len(history) : Like(i)
  \/ \E i \in 1..Len(history) : Dislike(i)
  \/ \E i \in 1..Len(history) : AddComment(i)
  \/ clearHistory

SpecReact == Init /\ [][NextReact]_vars

(***************************************************************************)
(* The reaction buttons on their own: the main view opens on a store that  *)
(* holds two scans of one address and a links node for it, and one viewer  *)
(* clicks like and dislike.                                                *)
(***************************************************************************)
\* the links nodes the reaction buttons leave behind: a reaction is counted
LinkStates ==
  {r \in [likes : 0..2, dislikes : 0..2, userReaction : {"none", "like", "dislike"},
          comments : {<<>>}] :
     /\ r.userReaction = "like" => r.likes >= 1
     /\ r.userReaction = "dislike" => r.dislikes >= 1}

InitToggle ==
  /\ scan = Null
  /\ history = <<>>
  /\ loading = FALSE
  /\ error = "none"
  /\ dbHistory = [n \in 1..2 |-> StoredScan(n, "Safe", 0, 0, "en-US")]
  /\ \E r \in LinkStates : dbLinks = PutLink(<<>>, safeKey(dbHistory[1].url), r)
  /\ pending = {dbHistory}
  /\ an = NoFlow
  /\ chk = NoCheck
  /\ nsubmits = 0
  /\ clicks = NoClicks

NextToggle ==
  \/ Deliver
  \/ \E i \in 1..Len(history) : Like(i)
  \/ \E i \in 1..Len(history) : Dislike(i)

SpecToggle == InitToggle /\ [][NextToggle]_vars

(***************************************************************************)
(* The reaction buttons of the community view (Community.tsx): the view    *)
(* opens on a store that holds two scans; a click writes likes, dislikes   *)
(* and userReaction of history/{id} in three set() calls, one after the    *)
(* other, and every write to history/ is notified to the view's listener.  *)
(***************************************************************************)
\* set(ref(db, `history/${id}/${field}`), value)
SetField(db, id, field, value) ==
  [k \in 1..Len(db) |-> IF db[k].id = id THEN [db[k] EXCEPT ![field] = value] ELSE db[k]]

\* a handler call up to its first await: the first set() is issued, the
\* other two and the setHistory follow; order are the fields in the order
\* of their set() calls
Community_Click(entry, order, updated) ==
  /\ clicks.n < MaxClicks
  /\ dbHistory' = SetField(dbHistory, entry.id, order[1], updated[order[1]])
  /\ pending' = {dbHistory'}
  /\ clicks' = [n |-> clicks.n + 1,
                calls |-> clicks.calls \cup {[call |-> clicks.n + 1, id |-> entry.id,
                                              todo |-> Tail(order), updated |-> updated]}]
  /\ UNCHANGED <<scan, history, loading, error, dbLinks, an, chk, nsubmits>>

\* the like button of entry i of the community view
Community_handleLike(i) ==
  /\ i \in 1..Len(history)
  /\ LET entry == history[i]
         newReaction == IF entry.userReaction = "like" THEN "none" ELSE "like"
         updatedLikes == IF newReaction = "like" THEN entry.likes + 1 ELSE entry.likes - 1
         updatedDislikes == IF newReaction = "like" /\ entry.userReaction = "dislike"
                            THEN entry.dislikes - 1 ELSE entry.dislikes
     IN Community_Click(entry, <<"likes", "dislikes", "userReaction">>,
                        [likes |-> updatedLikes, dislikes |-> updatedDislikes,
                         userReaction |-> newReaction])

\* the dislike button of entry i of the community view
Community_handleDislike(i) ==
  /\ i \in 1..Len(history)
  /\ LET entry == history[i]
         newReaction == IF entry.userReaction = "dislike" THEN "none" ELSE "dislike"
         updatedDislikes == IF newReaction = "dislike"
                            THEN entry.dislikes + 1 ELSE entry.dislikes - 1
         updatedLikes == IF newReaction = "dislike" /\ entry.userReaction = "like"
                         THEN entry.likes - 1 ELSE entry.likes
     IN Community_Click(entry, <<"dislikes", "likes", "userReaction">>,
                        [likes |-> updatedLikes, dislikes |-> updatedDislikes,
                         userReaction |-> newReaction])

\* a set() of a running handler call resolved and its next set() is issued
Community_NextSet ==
  /\ \E c \in clicks.calls :
       /\ c.todo # <<>>
       /\ dbHistory' = SetField(dbHistory, c.id, c.todo[1], c.updated[c.todo[1]])
       /\ clicks' = [clicks EXCEPT !.calls = (@ \ {c}) \cup {[c EXCEPT !.todo = Tail(@)]}]
  /\ pending' = {dbHistory'}
  /\ UNCHANGED <<scan, history, loading, error, dbLinks, an, chk, nsubmits>>

\* the last set() of a handler call resolved: setHistory(prev => prev.map(...))
Community_SetHistory ==
  /\ \E c \in clicks.calls :
       /\ c.todo = <<>>
       /\ history' = [k \in 1..Len(history) |->
                        IF history[k].id = c.id
                        THEN [history[k] EXCEPT !.likes = c.updated.likes,
                                                !.dislikes = c.updated.dislikes,
                                                !.userReaction = c.updated.userReaction]
                        ELSE history[k]]
       /\ clicks' = [clicks EXCEPT !.calls = @ \ {c}]
  /\ UNCHANGED <<scan, loading, error, dbHistory, dbLinks, pending, an, chk, nsubmits>>

InitCommunity ==
  /\ scan = Null
  /\ history = <<>>
  /\ loading = FALSE
  /\ error = "none"
  /\ dbHistory = [n \in 1..2 |-> StoredScan(n, "Safe", 0, 0, "en-US")]
  /\ dbLinks = <<>>
  /\ pending = {dbHistory}
  /\ an = NoFlow
  /\ chk = NoCheck
  /\ nsubmits = 0
  /\ clicks = NoClicks

NextCommunity ==
  \/ Community_Deliver
  \/ \E i \in 1..Len(history) : Community_handleLike(i)
  \/ \E i \in 1..Len(history) : Community_handleDislike(i)
  \/ Community_NextSet
  \/ Community_SetHistory

SpecCommunity == InitCommunity /\ [][NextCommunity]_vars

(***************************************************************************)
(* Storage keys as functions: the list holds the scans of two spellings of *)
(* one address, and reactions are stored for them by the buttons of the    *)
(* main view and by addLike and addDislike of firebase.ts.                 *)
(***************************************************************************)
KeyHosts == {<<"example", ".com">>, <<"www.", "google.com">>}

KeyPaths == {<<>>, <<"/", "redirect">>}

\* the spellings of an address: with or without a scheme and a trailing slash
Spellings(host, path) ==
  {scheme \o host \o path \o slash : scheme \in Schemes, slash \in {<<>>, <<"/">>}}

\* snapshot.val() || 0 of links/{key}/{field}
CountAt(links, key, field) ==
  IF key \in DOMAIN links /\ field \in DOMAIN links[key] THEN links[key][field] ELSE 0

\* getLikes and getDislikes of firebase.ts
getLikes(links, url) == CountAt(links, firebase_safeKey(url), "likes")

getDislikes(links, url) == CountAt(links, firebase_safeKey(url), "dislikes")

\* set(ref(db, `links/${key}/${field}`), value)
SetLinkField(links, key, field, value) ==
  LET node == IF key \in DOMAIN links THEN links[key] ELSE <<>>
  IN PutLink(links, key,
             [f \in (DOMAIN node) \cup {field} |-> IF f = field THEN value ELSE node[f]])

\* addLike of firebase.ts, called for the address of list entry i
addLike(i) ==
  /\ i \in 1..Len(history)
  /\ clicks.n < MaxClicks
  /\ clicks' = [clicks EXCEPT !.n = @ + 1]
  /\ dbLinks' = SetLinkField(dbLinks, firebase_safeKey(history[i].url), "likes",
                             getLikes(dbLinks, history[i].url) + 1)
  /\ UNCHANGED <<scan, history, loading, error, dbHistory, pending, an, chk, nsubmits>>

\* addDislike of firebase.ts, called for the address of list entry i
addDislike(i) ==
  /\ i \in 1..Len(history)
  /\ clicks.n < MaxClicks
  /\ clicks' = [clicks EXCEPT !.n = @ + 1]
  /\ dbLinks' = SetLinkField(dbLinks, firebase_safeKey(history[i].url), "dislikes",
                             getDislikes(dbLinks, history[i].url) + 1)
  /\ UNCHANGED <<scan, history, loading, error, dbHistory, pending, an, chk, nsubmits>>

InitKeys ==
  /\ scan = Null
  /\ \E host \in KeyHosts, path \in KeyPaths :
       \E a, b \in Spellings(host, path) :
         history = <<scoreUrl(b, <<"uuid", 2>>, toLocaleString(SessionTime(2), "en-US")),
                     scoreUrl(a, <<"uuid", 1>>, toLocaleString(SessionTime(1), "en-US"))>>
  /\ loading = FALSE
  /\ error = "none"
  /\ dbHistory = <<>>
  /\ dbLinks = <<>>
  /\ pending = {}
  /\ an = NoFlow
  /\ chk = NoCheck
  /\ nsubmits = 2
  /\ clicks = NoClicks

NextKeys ==
  \/ \E i \in 1..Len(history) : Like(i)
  \/ \E i \in 1..Len(history) : Dislike(i)
  \/ \E i \in 1..Len(history) : addLike(i)
  \/ \E i \in 1..Len(history) : addDislike(i)

SpecKeys == InitKeys /\ [][NextKeys]_vars

(***************************************************************************)
(* Properties.                                                             *)
(***************************************************************************)
SeqRange(list) == {list[i] : i \in 1..Len(list)}

\* the results the component shows: the displayed scan and the list entries
Shown == (IF scan = Null THEN {} ELSE {scan}) \cup SeqRange(history)

\* the results a running call closes over
Captured ==
  (IF an.closure = Null THEN {} ELSE {an.closure})
    \cup (IF an.result = Null THEN {} ELSE {an.result})
    \cup (IF chk.scan = Null THEN {} ELSE {chk.scan})

\* every result held anywhere: shown, captured, stored, or in a snapshot
Held ==
  Shown \cup Captured \cup SeqRange(dbHistory)
    \cup UNION {SeqRange(snapshot) : snapshot \in pending}

\* the step in which runExternalCheck applies a response body
Applies == chk.pc = "resolved" /\ chk.ext # Null /\ chk'.pc = "idle"

\* the step in which runExternalCheck ends: on a response body or on none
Completes == chk.pc = "resolved" /\ chk'.pc = "idle"

C2_ScoreRange ==
  scan # Null => scan.safety \in 0..10 /\ scan.confidence10 \in 0..10

\* C2 witness: an input whose contributions add up to less than 0 was scored
C2_Witness ==
  /\ scan # Null
  /\ scan.apiCheck = Null
  /\ rawScoreOf(checksOf(an.input)) < 0
  /\ scan.safety = 0

\* C3: the tier is a total, monotonic step function of safety (<= 3 High
\* Risk, 4..6 Be Careful, >= 7 Safe) for every safety in 0..10, and scoreUrl
\* and runExternalCheck apply the same mapping.
C3_TierStepFunction ==
  /\ scan # Null =>
       /\ scan.safety \in 0..10
       /\ scan.safety <= 3 => scan.tier = "High Risk"
       /\ (4 <= scan.safety /\ scan.safety <= 6) => scan.tier = "Be Careful"
       /\ scan.safety >= 7 => scan.tier = "Safe"
  /\ \A s \in 0..10 : scoreTier(s) = finalTier(s)
  /\ \A a \in 0..10 : \A b \in a..10 :
       tierOrder(scoreTier(a)) <= tierOrder(scoreTier(b))

\* C3 witness: a result scored Safe was re-tiered Be Careful by the check
C3_Witness ==
  /\ scan # Null
  /\ scan.apiCheck # Null
  /\ scoreTier(safetyOf(checksOf(an.input))) = "Safe"
  /\ scan.safety = 4
  /\ scan.tier = "Be Careful"

\* C4: when the external check succeeds (a response body whose sub-checks did
\* not all fail), the new safety is min(old, 1) for malicious, min(old, 4) for
\* suspicious and the old safety otherwise; a result with 4 <= safety <= 6 and
\* a malicious verdict ends High Risk.
C4_VerdictLowersSafety ==
  [][(Applies /\ ~didAllApisFail(chk.ext)) =>
       LET old == chk.scan.safety
           verdict == chk.ext.finalVerdict
       IN /\ verdict = "malicious" => scan'.safety = (IF old <= 1 THEN old ELSE 1)
          /\ verdict = "suspicious" => scan'.safety = (IF old <= 4 THEN old ELSE 4)
          /\ verdict \notin {"malicious", "suspicious"} => scan'.safety = old
          /\ (verdict = "malicious" /\ 4 <= old /\ old <= 6) => scan'.tier = "High Risk"]_vars

\* C4 witness: the result scored 6 for http://example.com is High Risk with
\* safety 1 after a check that did not fail
C4_Witness ==
  /\ scan # Null
  /\ scan.url = <<"http:", "/", "/", "example", ".com">>
  /\ scan.apiCheck # Null
  /\ ~scan.apiCheck.failed
  /\ scan.safety = 1
  /\ scan.tier = "High Risk"

\* C5: reconciliation is single-shot: once a result's apiCheck.done is true,
\* no later step (a manual or an automatic invocation of the external check)
\* changes the safety, tier, color or apiCheck of the result with that id.
C5_SingleShot ==
  [][\A r \in Held :
       (r.apiCheck # Null /\ r.apiCheck.done) =>
         \A q \in Held' :
           q.id = r.id =>
             /\ q.safety = r.safety
             /\ q.tier = r.tier
             /\ q.color = r.color
             /\ q.apiCheck = r.apiCheck]_vars

\* a list entry reloaded from the store carries the push key as its id; the
\* number of the scan tells which scan an entry shows
sameScan(a, b) == a.id[2] = b.id[2]

\* C6: for a given scan, in the displayed scan and in the list, apiCheck only
\* changes from null to a record with done = true, and once set no step
\* resets it to null.
C6_ApiCheckNeverReset ==
  [][/\ (scan # Null /\ scan' # Null /\ sameScan(scan, scan')) =>
          /\ scan.apiCheck # Null => scan'.apiCheck # Null
          /\ scan'.apiCheck # Null => scan'.apiCheck.done
     /\ \A h \in SeqRange(history) : \A g \in SeqRange(history') :
          sameScan(h, g) =>
            /\ h.apiCheck # Null => g.apiCheck # Null
            /\ g.apiCheck # Null => g.apiCheck.done]_vars

FailedRecord ==
  [done |-> TRUE, failed |-> TRUE, note |-> "External API scan failed", checks |-> <<>>]

\* the remote verdict counts as failed: no response body, or all sub-checks failed
LookupFailed == chk.ext = Null \/ didAllApisFail(chk.ext)

\* C7: when the remote lookup fails entirely, the checked result's apiCheck
\* becomes {done: true, failed: true, note: "External API scan failed",
\* checks: {}}.
C7_FailureRecorded ==
  [][(Completes /\ LookupFailed) =>
       /\ scan' # Null
       /\ scan'.id = chk.scan.id
       /\ scan'.apiCheck = FailedRecord]_vars

\* C8: when the remote verdict counts as failed, the safety, tier and color
\* of the checked result after the check equal those before it.
C8_FailureKeepsSafety ==
  [][(Completes /\ LookupFailed) =>
       \A q \in Shown' :
         q.id = chk.scan.id =>
           /\ q.safety = chk.scan.safety
           /\ q.tier = chk.scan.tier
           /\ q.color = chk.scan.color]_vars

\* C9: in every reachable state the displayed scan and every list entry have
\* the tier and the color derived from their safety.
C9_TierColorDerived ==
  \A r \in Shown :
    \/ r.safety <= 3 /\ r.tier = "High Risk" /\ r.color = "#ef4444"
    \/ 4 <= r.safety /\ r.safety <= 6 /\ r.tier = "Be Careful" /\ r.color = "#f59e0b"
    \/ r.safety >= 7 /\ r.tier = "Safe" /\ r.color = "#10b981"

\* C9 witness: the displayed scan and its list entry after a check lowered
\* the safety to 1
C9_Witness ==
  /\ scan # Null
  /\ scan.apiCheck # Null
  /\ scan.safety = 1
  /\ scan.color = "#ef4444"
  /\ \E h \in SeqRange(history) : h = scan

\* the step in which handleAnalyze ends after it scored a result
AnalyzeEnds == an.pc \in {"saving", "auto"} /\ an'.pc = "idle"

\* C10: when handleAnalyze scored a result with 3 < safety <= 6, then by the
\* time it ends a remote request was made for the new result's URL and the
\* new result, still displayed, carries the outcome of the check.
C10_AutoCheckOnNewResult ==
  [][(AnalyzeEnds /\ autoCheckDue(an.result)) =>
       /\ an.req = an.result.url
       /\ scan' # Null
       /\ scan'.id = an.result.id
       /\ (chk.pc = "resolved" /\ chk.ext # Null) => scan'.apiCheck # Null]_vars

\* the step in which a runExternalCheck call sends its request
Requests == chk.pc # "fetching" /\ chk'.pc = "fetching"

\* C11: the external check is never started, manually or automatically, for
\* a result whose safety is <= 3: no step sends a request for such a result
\* and no step of runExternalCheck rewrites one.
C11_NoCheckForHighRisk ==
  [][/\ Requests => chk'.scan.safety > 3
     /\ Applies => chk.scan.safety > 3]_vars

\* every combination of outcomes of the seven checks
CheckOutcomes ==
  [https : BOOLEAN, ssl : BOOLEAN, blacklisted : BOOLEAN, clean : BOOLEAN,
   suspicious : BOOLEAN, established : BOOLEAN, redirects : BOOLEAN]

\* the seven contributions add up to total, which is clamped to [0,10], and
\* the strictly positive ones add up to tenths
SevenContributions(b, safety, tenths) ==
  LET total == b.https + b.ssl + b.blacklisted + b.cleanDomain + b.suspiciousKeywords
                 + b.domainAge + b.redirects
      Pos(x) == IF x > 0 THEN x ELSE 0
  IN /\ DOMAIN b = BreakdownKeys
     /\ b.https \in {2, 0}
     /\ b.ssl \in {2, 0}
     /\ b.blacklisted \in {2, -2}
     /\ b.cleanDomain \in {1, 0}
     /\ b.suspiciousKeywords \in {1, -1}
     /\ b.domainAge \in {1, 0}
     /\ b.redirects \in {1, -1}
     /\ safety = (IF total < 0 THEN 0 ELSE IF total > 10 THEN 10 ELSE total)
     /\ tenths = Pos(b.https) + Pos(b.ssl) + Pos(b.blacklisted) + Pos(b.cleanDomain)
                   + Pos(b.suspiciousKeywords) + Pos(b.domainAge) + Pos(b.redirects)

\* C12: the safety of scoreUrl is the sum of the seven contributions recorded
\* in breakdown, clamped to [0,10], and confidence is the sum of the strictly
\* positive breakdown entries divided by 10: for every scored input, and for
\* every combination of the outcomes of the seven checks.
C12_SafetyIsClampedSum ==
  /\ (scan # Null /\ scan.apiCheck = Null) =>
       /\ SevenContributions(scan.breakdown, scan.safety, scan.confidence10)
       /\ scan.breakdown = breakdownOf(checksOf(an.input))
  /\ \A c \in CheckOutcomes :
       SevenContributions(breakdownOf(c), safetyOf(c), confidence10Of(breakdownOf(c)))

\* C12 witness: https://bit.ly was scored: a redirect penalty among positive
\* contributions, safety 7 and confidence 0.8
C12_Witness ==
  /\ scan # Null
  /\ scan.apiCheck = Null
  /\ scan.breakdown.redirects = -1
  /\ scan.breakdown.https = 2
  /\ scan.safety = 7
  /\ scan.confidence10 = 8

CautionOrder == <<"blacklisted", "suspiciousKeywords", "redirects", "https", "ssl", "domainAge">>

ConfirmationOrder ==
  <<"https", "ssl", "blacklisted", "cleanDomain", "suspiciousKeywords", "domainAge",
    "redirects">>

CautionText(k) ==
  CASE k = "blacklisted" -> "Domain is flagged on threat lists."
    [] k = "suspiciousKeywords" -> "URL contains suspicious, urgent keywords."
    [] k = "redirects" -> "Excessive redirects or shortener detected."
    [] k = "https" -> "Missing HTTPS for a secure connection."
    [] k = "ssl" -> "Missing or invalid SSL Certificate."
    [] k = "domainAge" -> "Domain is less than 6 months old."

ConfirmationText(k) ==
  CASE k = "https" -> "Uses HTTPS for a secure connection."
    [] k = "ssl" -> "Valid SSL Certificate detected."
    [] k = "blacklisted" -> "Domain is not flagged on threat lists."
    [] k = "cleanDomain" -> "Domain name is short and clean."
    [] k = "suspiciousKeywords" -> "No suspicious keywords found."
    [] k = "domainAge" -> "Domain is established (over 6 months old)."
    [] k = "redirects" -> "No excessive redirects detected."

\* the reasons by tier: the cautions of the factors that are negative or zero
\* when safety <= 6, the confirmations of the positive factors when safety > 6
\* or no caution applies
ReasonsByTier(safety, b, reasons) ==
  LET Bad(k) == b[k] <= 0
      Good(k) == b[k] > 0
      bad == SelectSeq(CautionOrder, Bad)
      good == SelectSeq(ConfirmationOrder, Good)
      cautions == [i \in 1..Len(bad) |-> CautionText(bad[i])]
      confirmations == [i \in 1..Len(good) |-> ConfirmationText(good[i])]
  IN /\ reasons # <<>>
     /\ (safety <= 6 /\ cautions # <<>>) => reasons = cautions
     /\ (safety > 6 \/ cautions = <<>>) =>
          reasons = (IF safety <= 6 THEN cautions ELSE <<>>) \o confirmations

\* C13: scoreUrl builds reasons by tier: with safety <= 6 the cautions for the
\* negative or zero factors in the order blacklist, keywords, redirects, https,
\* ssl, domain age; with safety > 6 (or when no caution applies) the
\* confirmations for the positive factors in the order https, ssl, blacklist,
\* clean domain, keywords, domain age, redirects; the list is never empty.
\* This holds for every scored input and every combination of check outcomes.
C13_ReasonsByTier ==
  /\ (scan # Null /\ scan.apiCheck = Null) =>
       ReasonsByTier(scan.safety, scan.breakdown, scan.reasons)
  /\ \A c \in CheckOutcomes :
       ReasonsByTier(safetyOf(c), breakdownOf(c), reasonsOf(safetyOf(c), breakdownOf(c)))

\* C13 witness: http://example.com/redirect was scored 4 and lists the
\* cautions for redirects, https and ssl, in that order
C13_Witness ==
  /\ scan # Null
  /\ scan.apiCheck = Null
  /\ scan.safety = 4
  /\ scan.reasons = <<"Excessive redirects or shortener detected.",
                      "Missing HTTPS for a secure connection.",
                      "Missing or invalid SSL Certificate.">>

\* the instant at which a stored scan was pushed
PushedAt(r) == SecondsOf(PushTime(r.id[2]))

\* C14: a list sorted with the main view's sortScans has every High Risk
\* result before every Be Careful result before every Safe result; within a
\* tier a result with more dislikes comes earlier; among results of equal tier
\* and dislikes the one with the newer timestamp comes first.
C14_MainViewRanking ==
  \A i \in 1..Len(history) : \A j \in (i + 1)..Len(history) :
    LET a == history[i]
        b == history[j]
    IN /\ tierOrder(a.tier) <= tierOrder(b.tier)
       /\ a.tier = b.tier => a.dislikes >= b.dislikes
       /\ (a.tier = b.tier /\ a.dislikes = b.dislikes) => PushedAt(a) >= PushedAt(b)

\* a comparator orders the ranked results totally: antisymmetric, transitive,
\* and nonzero for any two distinct results
TotalOrderOn(results, Cmp(_, _)) ==
  /\ \A a \in results : \A b \in results :
       /\ Cmp(a, b) < 0 <=> Cmp(b, a) > 0
       /\ a.id # b.id => Cmp(a, b) # 0
  /\ \A a \in results : \A b \in results : \A c \in results :
       (Cmp(a, b) <= 0 /\ Cmp(b, c) <= 0) => Cmp(a, c) <= 0

\* C15: both ranking comparators (main view: tier, dislikes, timestamp;
\* community view: tier, dislikes, likes, timestamp) are total orders on the
\* results of a ranked list: antisymmetric, transitive, and nonzero for any two
\* distinct results, so that no two distinct results tie.
C15_ComparatorsTotal ==
  /\ TotalOrderOn(SeqRange(history), sortScans)
  /\ TotalOrderOn(SeqRange(history), Community_sortScans)

\* the step in which handleAnalyze returns because the gate resolved false
Rejected == an.pc = "gate" /\ an'.pc = "idle"

\* C16: when the domain existence gate returns false for the submitted host,
\* handleAnalyze has scored nothing and written nothing to the store, it sets
\* a user-facing error, and it leaves the list as it is and the displayed scan
\* as it was before the submit.
C16_GateRejectionChangesNothing ==
  [][Rejected =>
       /\ an.result = Null
       /\ dbHistory' = dbHistory
       /\ dbLinks' = dbLinks
       /\ error' # "none"
       /\ history' = history
       /\ scan' = an.closure]_vars

\* the probes of isDomainValid whose fetch is in flight
InFlight == an.sent \ an.failed

\* the step in which handleAnalyze goes on because the gate resolved true
Passed_Gate == an.pc = "gate" /\ an'.pc = "scoring"

\* C17: isDomainValid returns true without any probe for a host on the
\* well-known list; otherwise it issues at most four probes, strictly one
\* after another (never two in flight, each only after all earlier ones
\* failed), returns true at the first probe that succeeds without issuing a
\* later one, and returns false exactly when every probe failed or timed out;
\* it always terminates.
C17_GateProbes ==
  /\ [](an.pc = "gate" =>
          /\ isWellKnown(parseHost(an.input).host) => an.sent = {}
          /\ an.sent \subseteq 1..4
          /\ Cardinality(InFlight) <= 1
          /\ \A i \in an.sent : \A j \in 1..(i - 1) : j \in an.failed
          /\ an.failed # 1..4)
  /\ [][Passed_Gate =>
          \/ isWellKnown(parseHost(an.input).host) /\ an.sent = {}
          \/ \E i \in 1..4 : InFlight = {i} /\ an.sent = 1..i /\ an.failed = 1..(i - 1)]_vars
  /\ [][Rejected =>
          /\ ~isWellKnown(parseHost(an.input).host)
          /\ an.sent = 1..4
          /\ an.failed \cup InFlight = 1..4]_vars
  /\ (an.pc = "gate") ~> (an.pc # "gate")

\* C17 witness: three probes have failed one after another and the fourth is
\* in flight
C17_Witness ==
  /\ an.pc = "gate"
  /\ an.sent = 1..4
  /\ an.failed = 1..3

\* no call of handleAnalyze or runExternalCheck is running
FlowsFinished == an.pc = "idle" /\ chk.pc = "idle"

\* C18: a result is handed to the store after reconciliation: once the flows
\* have finished, the record stored under history/ for a displayed scan that
\* the external check has rewritten has the same safety, tier, color and
\* apiCheck as the displayed scan.
C18_StoredAfterReconciliation ==
  (FlowsFinished /\ scan # Null /\ scan.apiCheck # Null) =>
    \A i \in 1..Len(dbHistory) :
      sameScan(dbHistory[i], scan) =>
        /\ dbHistory[i].safety = scan.safety
        /\ dbHistory[i].tier = scan.tier
        /\ dbHistory[i].color = scan.color
        /\ dbHistory[i].apiCheck = scan.apiCheck

\* a call of runExternalCheck is running: its request is in flight or its
\* response is being applied
CheckRunning == chk.pc # "idle"

C20_AbandonedCheckIgnored ==
  [][(Completes /\ scan = Null) => (scan' = Null /\ history' = history)]_vars

(***************************************************************************)
(* Reactions, comments and storage keys.                                   *)
(***************************************************************************)
\* the nodes under links/
LinkNodes == {dbLinks[k] : k \in DOMAIN dbLinks}

\* C21: a viewer's reaction to a scan is never persisted: no record of the
\* store, under links/ or under history/, holds a userReaction other than
\* none, so no list can take a reaction from shared storage.
C21_UserReactionNotPersisted ==
  /\ \A node \in LinkNodes :
       "userReaction" \in DOMAIN node => node.userReaction = "none"
  /\ \A i \in 1..Len(dbHistory) : dbHistory[i].userReaction = "none"

\* whether list a is an initial part of list b
IsPrefix(a, b) == Len(a) <= Len(b) /\ SubSeq(b, 1, Len(a)) = a

\* the clear-btn is pressed in this step
Clears == history' = <<>> /\ dbHistory' = <<>> /\ dbLinks' = <<>>

\* C23: the comments stored under links/{key}/comments are append-only:
\* every step other than Clear history keeps the comments stored under each
\* key, in their order, and at most adds comments behind them.
C23_CommentsAppendOnly ==
  [][Clears \/ \A key \in DOMAIN dbLinks :
                 IsPrefix(commentsAt(dbLinks, key), commentsAt(dbLinks', key))]_vars

\* a key under links/ that has likes or dislikes, and a save that writes it
HasCommunityState(key) ==
  /\ key \in DOMAIN dbLinks
  /\ "likes" \in DOMAIN dbLinks[key]
  /\ dbLinks[key].likes + dbLinks[key].dislikes > 0

\* C24: saving a new scan of a URL that already has community state leaves
\* the likes and dislikes stored under links/{key} unchanged.
C24_SaveKeepsCounters ==
  [][\A key \in DOMAIN dbLinks :
       (an.pc = "saving" /\ an'.pc # "saving" /\ HasCommunityState(key))
         => /\ dbLinks'[key].likes = dbLinks[key].likes
            /\ dbLinks'[key].dislikes = dbLinks[key].dislikes]_vars

\* the entry of the list after a step that has the id of entry h
EntryAfter(h) == CHOOSE e \in SeqRange(history') : e.id = h.id

\* the counters and the reaction stored under links/{key} after a step
LinkAfter(h) == reactionOf(dbLinks'[safeKey(h.url)])

\* C29 as stated: for one viewer in the main view, a like click followed by
\* a second like click (or a dislike click followed by a second one) gives
\* the entry the likes, dislikes and userReaction it had before, whatever
\* its reaction was.
C29_AnyToggleRoundTrips ==
  [][\A i \in 1..Len(history) :
       /\ Like(i) => likeClicked(EntryAfter(history[i])) = reactionOf(history[i])
       /\ Dislike(i) => dislikeClicked(EntryAfter(history[i])) = reactionOf(history[i])]_vars

\* C29: for one viewer in the main view, a like click followed by a second
\* like click restores likes, dislikes and userReaction of the entry when
\* the entry was not disliked before (and a dislike click followed by a
\* second one when it was not liked before); a click that switches from like
\* to dislike lowers likes by one and raises dislikes by one, and
\* symmetrically; and the values written to links/{key} are those of the list
\* entry.
C29_TogglesRoundTrip ==
  [][\A i \in 1..Len(history) :
       LET h == history[i]
       IN /\ (Like(i) /\ h.userReaction # "dislike")
               => likeClicked(EntryAfter(h)) = reactionOf(h)
          /\ (Dislike(i) /\ h.userReaction # "like")
               => dislikeClicked(EntryAfter(h)) = reactionOf(h)
          /\ (Like(i) /\ h.userReaction = "dislike")
               => /\ EntryAfter(h).likes = h.likes + 1
                  /\ EntryAfter(h).dislikes = h.dislikes - 1
                  /\ EntryAfter(h).userReaction = "like"
          /\ (Dislike(i) /\ h.userReaction = "like")
               => /\ EntryAfter(h).likes = h.likes - 1
                  /\ EntryAfter(h).dislikes = h.dislikes + 1
                  /\ EntryAfter(h).userReaction = "dislike"
          /\ (Like(i) \/ Dislike(i)) => LinkAfter(h) = reactionOf(EntryAfter(h))]_vars

\* the viewer has switched an entry from like to dislike or back, and the
\* node under links/ holds the entry's values
C29_Witness ==
  /\ clicks.n >= 2
  /\ \E i \in 1..Len(history) :
       /\ history[i].userReaction = "dislike"
       /\ history[i].likes = 0
       /\ reactionOf(dbLinks[safeKey(history[i].url)]) = reactionOf(history[i])

\* the records that carry counters: the store's and the list's
CounterRecords ==
  SeqRange(dbHistory) \cup SeqRange(history)
    \cup {node \in LinkNodes : "likes" \in DOMAIN node}

\* C22: likes and dislikes are non-negative in every record of the store
\* and in every entry of a viewer's list, under any interleaving of like and
\* dislike clicks and store change notifications, in both views.
C22_CountersNonNegative ==
  \A r \in CounterRecords : r.likes >= 0 /\ r.dislikes >= 0

\* the addresses of the list entries
ListedUrls == {history[i].url : i \in 1..Len(history)}

\* C25: for two spellings of one address that differ only in the scheme or
\* in a trailing slash, each place that derives the storage key (safeKey of
\* App.tsx, of Community.tsx and of firebase.ts) yields the same key for
\* both, and the counters stored under one spelling are read back under the
\* other.
C25_KeyRoundTrip ==
  \A a, b \in ListedUrls :
    /\ safeKey(a) = safeKey(b)
    /\ Community_safeKey(a) = Community_safeKey(b)
    /\ firebase_safeKey(a) = firebase_safeKey(b)
    /\ getLikes(dbLinks, a) = getLikes(dbLinks, b)
    /\ getDislikes(dbLinks, a) = getDislikes(dbLinks, b)

\* C26: when an external check completes and rewrites the displayed scan,
\* the entry of the recent-scans list for that same scan shows the same
\* safety, tier, color and apiCheck, also when the list was reloaded from the
\* store in the meantime and the entry carries the push key as its id.
C26_ListFollowsCheck ==
  [][Applies =>
       \A h \in SeqRange(history') :
         sameScan(h, scan') =>
           /\ h.safety = scan'.safety
           /\ h.tier = scan'.tier
           /\ h.color = scan'.color
           /\ h.apiCheck = scan'.apiCheck]_vars

\* the url scoreUrl gives the result for an input: the input with the scheme
\* prefixed if absent
UrlFor(input) == IF StartsWithHttp(input) THEN input ELSE <<"https:", "/", "/">> \o input

\* C27: when handleAnalyze ends after it scored input X, the displayed scan
\* is the result for X (unless the user dismissed it with New check), also
\* when the automatic check ran and a previous scan was displayed when
\* Analyze was pressed; and a check started by handleAnalyze works on the
\* result that handleAnalyze scored, never on an earlier scan.
C27_AnalyzeShowsItsResult ==
  [][/\ (AnalyzeEnds /\ scan' # Null) =>
          /\ scan'.url = UrlFor(an.input)
          /\ scan'.id = an.result.id
     /\ (chk'.pc # "idle" /\ chk'.auto) => chk'.scan.id = an'.result.id]_vars

CautionTexts == {CautionText(CautionOrder[i]) : i \in 1..Len(CautionOrder)}

ConfirmationTexts == {ConfirmationText(ConfirmationOrder[i]) : i \in 1..Len(ConfirmationOrder)}

FallbackText ==
  "Analysis complete. No specific flags found, but score is 0. Check for valid domain format."

\* a result with safety <= 6 lists a caution, one with safety > 6 lists a
\* confirmation, and none lists the fallback message
ReasonsCover(safety, reasons) ==
  /\ safety <= 6 => SeqRange(reasons) \cap CautionTexts # {}
  /\ safety > 6 => SeqRange(reasons) \cap ConfirmationTexts # {}
  /\ FallbackText \notin SeqRange(reasons)

\* C28: in scoreUrl, safety <= 6 implies that at least one caution is
\* produced and safety > 6 that at least one confirmation is produced, so
\* the fallback message is never emitted: for every scored input and for
\* every combination of the outcomes of the seven checks.
C28_ReasonsNeverFallBack ==
  /\ (scan # Null /\ scan.apiCheck = Null) => ReasonsCover(scan.safety, scan.reasons)
  /\ \A c \in CheckOutcomes :
       ReasonsCover(safetyOf(c), reasonsOf(safetyOf(c), breakdownOf(c)))

\* C28 witness: http://example.com was scored 6, the highest safety that
\* lists cautions, and lists the cautions for https and ssl and no
\* confirmation
C28_Witness ==
  /\ scan # Null
  /\ scan.apiCheck = Null
  /\ an.input = <<"http:", "/", "/", "example", ".com">>
  /\ scan.safety = 6
  /\ scan.reasons = <<"Missing HTTPS for a secure connection.",
                      "Missing or invalid SSL Certificate.">>

====
